---- MODULE Spec2Model ----
(* MFRSR (src/dlkcnet_arch.py): the control and data flow of one model       *)
(* instance: construction, then forward calls, each made of mirror           *)
(* detection, spatial feature extraction, optical flow, two directional      *)
(* propagation loops and the per-frame reconstruction.  Tensors are          *)
(* modelled by what decides the behaviour: their shapes, the frames they     *)
(* were computed from and the step that produced them.                       *)
EXTENDS Integers, Sequences, FiniteSets, TLC

(* ---- bounds ---- *)
MaxT == 4
MaxCalls == 3

(* ---- program constants ---- *)
MinSize == 64
DefaultCacheLength == 100
PixelShuffleFactor == 2
ImgUpsampleFactor == 4

(* ---- input domains ---- *)
Pix == {0, 1}
Heights == {63, 64}
Widths == {63, 65}
CacheLengths == {0, 2, DefaultCacheLength}
Sequences_ == UNION {[1..t -> Pix] : t \in 1..MaxT}

(* ---- python / torch helpers ---- *)
Reverse(s) == [k \in 1..Len(s) |-> s[Len(s) + 1 - k]]

Range(a, b) == [k \in 1..(IF b > a THEN b - a ELSE 0) |-> a + k - 1]

InRange(s, k) == IF k >= 0 THEN k < Len(s) ELSE 0 - k <= Len(s)

At(s, k) == IF k >= 0 THEN s[k + 1] ELSE s[Len(s) + k + 1]

RECURSIVE SumSq(_)
SumSq(s) == IF Len(s) = 0 THEN 0 ELSE Head(s) * Head(s) + SumSq(Tail(s))

Chunk1(x) == SubSeq(x, 1, Len(x) \div 2)

Chunk2(x) == SubSeq(x, Len(x) \div 2 + 1, Len(x))

(* ---- feature and flow values ---- *)
Zero == [kind |-> "zero", call |-> 0, module |-> "none", step |-> 0, frames |-> << >>]

Tensor(kind, call, module, step, frames) ==
    [kind |-> kind, call |-> call, module |-> module, step |-> step, frames |-> frames]

SpyNet(ref, supp) == [k \in 1..Len(ref) |-> <<ref[k], supp[k]>>]

(* ---- check_if_mirror_extended ---- *)
MirrorNoFlip(flag, x) ==
    IF Len(x) % 2 = 0
    THEN IF SumSq([k \in 1..Len(Chunk1(x)) |-> Chunk1(x)[k] - Chunk2(x)[k]]) = 0
         THEN TRUE ELSE flag
    ELSE flag

MirrorToggle(flag, x) ==
    IF Len(x) % 2 = 0
    THEN IF SumSq([k \in 1..Len(Chunk1(x)) |-> Chunk1(x)[k] - Reverse(Chunk2(x))[k]]) = 0
         THEN ~flag ELSE flag
    ELSE flag

CheckIfMirrorExtended(flag, x) ==
    IF Len(x) % 2 = 0
    THEN IF SumSq([k \in 1..Len(Chunk1(x)) |-> Chunk1(x)[k] - Reverse(Chunk2(x))[k]]) = 0
         THEN TRUE ELSE flag
    ELSE flag

(* ---- compute_flow ---- *)
FlowsBackward(x) == SpyNet(SubSeq(x, 1, Len(x) - 1), SubSeq(x, 2, Len(x)))

FlowsForward(flag, x) ==
    IF flag THEN Reverse(FlowsBackward(x))
    ELSE SpyNet(SubSeq(x, 2, Len(x)), SubSeq(x, 1, Len(x) - 1))

SpyNetCalls(flag) == IF flag THEN 1 ELSE 2

(* ---- shapes ---- *)
ConvOut(s, k, p) == s + 2 * p - k + 1

SmallKernelSize(s) ==
    IF ConvOut(s, 1, 0) = ConvOut(s, 3, 1) /\ ConvOut(s, 3, 1) = ConvOut(s, 5, 2)
    THEN ConvOut(s, 1, 0) ELSE 0

(* feats_2 is interpolated to the size of feats_1 before the sum *)
FeatSize(s) == SmallKernelSize(s)

AssertOr(dh, dw) == dh >= MinSize \/ dw >= MinSize

SizeAssert(dh, dw) == dh >= MinSize /\ dw >= MinSize

PixelShuffle(s) == PixelShuffleFactor * s

ImgUpsample(s) == ImgUpsampleFactor * s

UpsampleSizeOneStage(fs, s, low) ==
    LET hr == PixelShuffle(fs)
        skip == IF low THEN PixelShuffleFactor * s ELSE s
    IN IF hr = skip THEN hr ELSE 0

UpsampleSize(fs, s, low) ==
    LET hr == PixelShuffle(PixelShuffle(fs))
        skip == IF low THEN ImgUpsample(s) ELSE s
    IN IF hr = skip THEN hr ELSE 0

(* ---- propagate: index tables ---- *)
MappingIdx(num) == Range(0, num) \o Reverse(Range(0, num))

FrameIdxShort(module, t) ==
    IF module = "backward_1" THEN Reverse(Range(0, t)) ELSE Range(0, t)

FrameIdxNoReverse(module, t) == Range(0, t + 1)

FrameIdx(module, t) ==
    IF module = "backward_1" THEN Reverse(Range(0, t + 1)) ELSE Range(0, t + 1)

FlowIdxAsFrame(module, t) == FrameIdx(module, t)

FlowIdx(module, t) ==
    IF module = "backward_1" THEN FrameIdx(module, t) ELSE Range(0 - 1, t)

AlignLate(i, with_alignment) == i > 1 /\ with_alignment

AlignGuard(i, with_alignment) == i > 0 /\ with_alignment

SecondOrderLast(list) == At(list, 0 - 1)

SecondOrderFeat(list) == At(list, 0 - 2)

KeepOrder(module, list) == list

AlignOutput(module, list) == IF module = "backward_1" THEN Reverse(list) ELSE list

OtherKeys(keys, module) ==
    SelectSeq(keys, LAMBDA k : k # "spatial" /\ k # module)

PropKeys(keys) == SelectSeq(keys, LAMBDA k : k # "spatial")

(* ---- spatial features (forward, lines 394-412) ---- *)
SpatialFeats(cache, call, t) ==
    IF cache
    THEN [k \in 1..t |-> Tensor("spatial", call, "spatial", k - 1, Range(0, t))]
    ELSE [k \in 1..t |-> Tensor("spatial", call, "spatial", 0, <<k - 1>>)]

ExtractCount(cache, t) == [k \in 1..t |-> IF cache THEN t ELSE 1]

CpuCache(t, length) == t > length

Downsample(s, low) == IF low THEN s ELSE s \div 4

(* ---- state ---- *)
VARIABLES phase, is_low_res_input, cpu_cache_length, cuda, is_with_alignment,
          warnings, is_mirror_extended, cpu_cache,
          pc, err, calls, lqs, h, w, ds_h, ds_w, feat_h, feat_w,
          feats, extracted, flows_forward, flows_backward, spynet_calls,
          directions, module, flows, i, feat_prop, trace, outputs, prev

cfg == <<phase, is_low_res_input, cpu_cache_length, cuda, is_with_alignment, warnings>>

input == <<calls, lqs, h, w, ds_h, ds_w, cpu_cache, prev>>

flowvars == <<flows_forward, flows_backward, spynet_calls>>

loopvars == <<directions, module, flows, i, feat_prop, trace>>

vars == <<phase, is_low_res_input, cpu_cache_length, cuda, is_with_alignment,
          warnings, is_mirror_extended, cpu_cache,
          pc, err, calls, lqs, h, w, ds_h, ds_w, feat_h, feat_w,
          feats, extracted, flows_forward, flows_backward, spynet_calls,
          directions, module, flows, i, feat_prop, trace, outputs, prev>>

Names == {"spatial", "backward_1", "forward_1"}

NoFeats == [keys |-> << >>, lists |-> [k \in Names |-> << >>]]

(* what one finished call did, without the call number *)
Anon(x) == [x EXCEPT !.call = 0]

AnonSeq(s) == [k \in 1..Len(s) |-> Anon(s[k])]

AnonStep(s) ==
    [s EXCEPT !.feat_current = Anon(@), !.prop_in = Anon(@), !.feat_n2 = Anon(@),
              !.cond_n1 = AnonSeq(@), !.cond_n2 = AnonSeq(@),
              !.last_feat = AnonSeq(@), !.fusion_prop = Anon(@), !.out = Anon(@)]

AnonOut(o) == [o EXCEPT !.spatial = Anon(@), !.hr = AnonSeq(@)]

Summary ==
    [valid |-> TRUE, lqs |-> lqs, h |-> h, w |-> w, pc |-> pc, err |-> err,
     mirror |-> is_mirror_extended, cpu_cache |-> cpu_cache,
     flows_forward |-> flows_forward, flows_backward |-> flows_backward,
     spynet_calls |-> spynet_calls,
     trace |-> [k \in 1..Len(trace) |-> AnonStep(trace[k])],
     outputs |-> [k \in 1..Len(outputs) |-> AnonOut(outputs[k])]]

NoSummary ==
    [valid |-> FALSE, lqs |-> << >>, h |-> 0, w |-> 0, pc |-> "idle", err |-> "none",
     mirror |-> FALSE, cpu_cache |-> FALSE,
     flows_forward |-> << >>, flows_backward |-> << >>, spynet_calls |-> 0,
     trace |-> << >>, outputs |-> << >>]

Init ==
    /\ phase = "unbuilt"
    /\ is_low_res_input = TRUE
    /\ cpu_cache_length = DefaultCacheLength
    /\ cuda = FALSE
    /\ is_with_alignment = FALSE
    /\ warnings = 0
    /\ is_mirror_extended = FALSE
    /\ cpu_cache = FALSE
    /\ pc = "idle"
    /\ err = "none"
    /\ calls = 0
    /\ lqs = << >>
    /\ h = 0
    /\ w = 0
    /\ ds_h = 0
    /\ ds_w = 0
    /\ feat_h = 0
    /\ feat_w = 0
    /\ feats = NoFeats
    /\ extracted = << >>
    /\ flows_forward = << >>
    /\ flows_backward = << >>
    /\ spynet_calls = 0
    /\ directions = << >>
    /\ module = "none"
    /\ flows = << >>
    /\ i = 0
    /\ feat_prop = Zero
    /\ trace = << >>
    /\ outputs = << >>
    /\ prev = NoSummary

(* __init__: with is_low_res_input false the name MultiScaleAttention is     *)
(* undefined and construction raises NameError                               *)
Construct(low, cuda_available, length) ==
    /\ phase = "unbuilt"
    /\ is_low_res_input' = low
    /\ cpu_cache_length' = length
    /\ cuda' = cuda_available
    /\ IF low
       THEN /\ phase' = "ready"
            /\ is_with_alignment' = cuda_available
            /\ warnings' = IF cuda_available THEN 0 ELSE 1
       ELSE /\ phase' = "broken"
            /\ UNCHANGED <<is_with_alignment, warnings>>
    /\ is_mirror_extended' = FALSE
    /\ UNCHANGED <<cpu_cache, pc, err, calls, lqs, h, w, ds_h, ds_w, feat_h, feat_w,
                   feats, extracted, flows_forward, flows_backward, spynet_calls,
                   directions, module, flows, i, feat_prop, trace, outputs, prev>>

(* forward, lines 378-389 *)
Forward(x, hh, ww) ==
    /\ phase = "ready"
    /\ pc \in {"idle", "returned", "failed"}
    /\ calls < MaxCalls
    /\ calls' = calls + 1
    /\ prev' = IF calls > 0 /\ x = lqs /\ hh = h /\ ww = w THEN Summary ELSE NoSummary
    /\ lqs' = x
    /\ h' = hh
    /\ w' = ww
    /\ cpu_cache' = CpuCache(Len(x), cpu_cache_length)
    /\ ds_h' = Downsample(hh, is_low_res_input)
    /\ ds_w' = Downsample(ww, is_low_res_input)
    /\ pc' = "check"
    /\ err' = "none"
    /\ feat_h' = 0
    /\ feat_w' = 0
    /\ feats' = NoFeats
    /\ extracted' = << >>
    /\ flows_forward' = << >>
    /\ flows_backward' = << >>
    /\ spynet_calls' = 0
    /\ directions' = << >>
    /\ module' = "none"
    /\ flows' = << >>
    /\ i' = 0
    /\ feat_prop' = Zero
    /\ trace' = << >>
    /\ outputs' = << >>
    /\ UNCHANGED <<cfg, is_mirror_extended>>

(* forward, line 392 *)
CheckMirror ==
    /\ pc = "check"
    /\ is_mirror_extended' = CheckIfMirrorExtended(is_mirror_extended, lqs)
    /\ pc' = "spatial"
    /\ UNCHANGED <<cfg, input, err, feat_h, feat_w, feats, extracted, flowvars,
                   loopvars, outputs>>

(* forward, lines 394-412 *)
SpatialFeatures ==
    /\ pc = "spatial"
    /\ feats' = [keys |-> <<"spatial">>,
                 lists |-> [NoFeats.lists EXCEPT
                              !["spatial"] = SpatialFeats(cpu_cache, calls, Len(lqs))]]
    /\ extracted' = ExtractCount(cpu_cache, Len(lqs))
    /\ feat_h' = FeatSize(h)
    /\ feat_w' = FeatSize(w)
    /\ pc' = "flow"
    /\ UNCHANGED <<cfg, input, is_mirror_extended, err, flowvars, loopvars, outputs>>

(* forward, lines 415-418, and compute_flow *)
ComputeFlow ==
    /\ pc = "flow"
    /\ IF SizeAssert(ds_h, ds_w)
       THEN /\ flows_backward' = FlowsBackward(lqs)
            /\ flows_forward' = FlowsForward(is_mirror_extended, lqs)
            /\ spynet_calls' = SpyNetCalls(is_mirror_extended)
            /\ directions' = <<"backward_1", "forward_1">>
            /\ pc' = "direction"
            /\ err' = err
       ELSE /\ pc' = "failed"
            /\ err' = "AssertionError"
            /\ UNCHANGED <<flowvars, directions>>
    /\ UNCHANGED <<cfg, input, is_mirror_extended, feat_h, feat_w, feats, extracted,
                   module, flows, i, feat_prop, trace, outputs>>

(* forward, lines 422-432, and propagate, lines 255-266 *)
StartDirection ==
    /\ pc = "direction"
    /\ directions # << >>
    /\ module' = Head(directions)
    /\ feats' = [keys |-> IF \E k \in 1..Len(feats.keys) : feats.keys[k] = Head(directions)
                          THEN feats.keys ELSE Append(feats.keys, Head(directions)),
                 lists |-> [feats.lists EXCEPT ![Head(directions)] = << >>]]
    /\ flows' = IF Head(directions) = "backward_1" THEN flows_backward ELSE flows_forward
    /\ i' = 0
    /\ feat_prop' = Zero
    /\ pc' = "loop"
    /\ UNCHANGED <<cfg, input, is_mirror_extended, err, feat_h, feat_w, extracted,
                   flowvars, directions, trace, outputs>>

(* ---- propagate: one iteration of the loop, lines 267-320 ---- *)
Spatial == feats.lists["spatial"]

Own == feats.lists[module]

StepIdx == FrameIdx(module, Len(flows))[i + 1]

FeatCurrent == At(Spatial, At(MappingIdx(Len(Spatial)), StepIdx))

Aligned == AlignGuard(i, is_with_alignment)

FlowN1Idx == FlowIdx(module, Len(flows))[i + 1]

FlowN2Idx == FlowIdx(module, Len(flows))[i]

SameShape(x) == Len(x.frames) = 1 /\ feat_h = ds_h /\ feat_w = ds_w

LastFeat == [k \in 1..Len(OtherKeys(feats.keys, module)) |->
                At(feats.lists[OtherKeys(feats.keys, module)[k]], StepIdx)]

StepError ==
    IF cpu_cache /\ ~cuda THEN "CudaError"
    ELSE IF Aligned /\ ~InRange(flows, FlowN1Idx) THEN "IndexError"
    ELSE IF Aligned /\ i > 1 /\ ~InRange(Own, 0 - 2) THEN "IndexError"
    ELSE IF Aligned /\ i > 1 /\ ~InRange(flows, FlowN2Idx) THEN "IndexError"
    ELSE IF Aligned /\ ~SameShape(FeatCurrent) THEN "ShapeError"
    ELSE IF \E k \in 1..Len(OtherKeys(feats.keys, module)) :
               ~InRange(feats.lists[OtherKeys(feats.keys, module)[k]], StepIdx)
         THEN "IndexError"
    ELSE IF ~SameShape(FeatCurrent) THEN "ShapeError"
    ELSE "none"

StepRecord ==
    LET second == Aligned /\ i > 1
        feat_n2 == IF second THEN SecondOrderFeat(Own) ELSE Zero
        flow_n1 == IF Aligned THEN <<At(flows, FlowN1Idx)>> ELSE << >>
        fusion_prop == IF Aligned
                       THEN Tensor("aligned", calls, module, i, <<StepIdx>>)
                       ELSE feat_prop
    IN [module |-> module, i |-> i, idx |-> StepIdx, aligned |-> Aligned,
        feat_current |-> FeatCurrent,
        prop_in |-> feat_prop,
        flow_idx |-> IF second THEN <<FlowN1Idx, FlowN2Idx>>
                     ELSE IF Aligned THEN <<FlowN1Idx>> ELSE << >>,
        flow_n1 |-> flow_n1,
        cond_n1 |-> IF Aligned THEN <<feat_prop>> ELSE << >>,
        feat_n2 |-> feat_n2,
        flow_n2 |-> IF second THEN flow_n1 \o <<At(flows, FlowN2Idx)>> ELSE << >>,
        cond_n2 |-> IF second THEN <<feat_n2>> ELSE << >>,
        last_feat |-> LastFeat,
        fusion_prop |-> fusion_prop,
        out |-> Tensor("prop", calls, module, i, <<StepIdx>>)]

PropagateStep ==
    /\ pc = "loop"
    /\ i < Len(FrameIdx(module, Len(flows)))
    /\ IF StepError = "none"
       THEN /\ trace' = Append(trace, StepRecord)
            /\ feat_prop' = StepRecord.out
            /\ feats' = [feats EXCEPT !.lists[module] = Append(@, StepRecord.out)]
            /\ i' = i + 1
            /\ UNCHANGED <<pc, err>>
       ELSE /\ pc' = "failed"
            /\ err' = StepError
            /\ UNCHANGED <<trace, feat_prop, feats, i>>
    /\ UNCHANGED <<cfg, input, is_mirror_extended, feat_h, feat_w, extracted, flowvars,
                   directions, module, flows, outputs>>

(* propagate, lines 322-325, and the next turn of the loop at line 422 *)
FinishDirection ==
    /\ pc = "loop"
    /\ i = Len(FrameIdx(module, Len(flows)))
    /\ feats' = [feats EXCEPT !.lists[module] = AlignOutput(module, @)]
    /\ directions' = Tail(directions)
    /\ pc' = IF Tail(directions) = << >> THEN "upsample" ELSE "direction"
    /\ UNCHANGED <<cfg, input, is_mirror_extended, err, feat_h, feat_w, extracted,
                   flowvars, module, flows, i, feat_prop, trace, outputs>>

(* ---- upsample: one iteration of the loop, lines 343-365 ---- *)
OutIdx == Len(outputs)

Popped == [k \in 1..Len(PropKeys(feats.keys)) |-> Head(feats.lists[PropKeys(feats.keys)[k]])]

UpsampleError ==
    IF \E k \in 1..Len(PropKeys(feats.keys)) : feats.lists[PropKeys(feats.keys)[k]] = << >>
    THEN "IndexError"
    ELSE IF ~InRange(Spatial, At(MappingIdx(Len(Spatial)), OutIdx)) THEN "IndexError"
    ELSE IF Len(At(Spatial, At(MappingIdx(Len(Spatial)), OutIdx)).frames) # 1 THEN "ShapeError"
    ELSE IF cpu_cache /\ ~cuda THEN "CudaError"
    ELSE IF UpsampleSize(feat_h, h, is_low_res_input) = 0 THEN "ShapeError"
    ELSE IF UpsampleSize(feat_w, w, is_low_res_input) = 0 THEN "ShapeError"
    ELSE "none"

UpsampleStep ==
    /\ pc = "upsample"
    /\ OutIdx < Len(lqs)
    /\ IF UpsampleError = "none"
       THEN /\ outputs' = Append(outputs,
                   [lq |-> OutIdx,
                    spatial |-> At(Spatial, At(MappingIdx(Len(Spatial)), OutIdx)),
                    hr |-> Popped,
                    height |-> UpsampleSize(feat_h, h, is_low_res_input),
                    width |-> UpsampleSize(feat_w, w, is_low_res_input)])
            /\ feats' = [feats EXCEPT !.lists =
                   [k \in Names |-> IF k = "spatial" \/ feats.lists[k] = << >>
                                    THEN feats.lists[k] ELSE Tail(feats.lists[k])]]
            /\ UNCHANGED <<pc, err>>
       ELSE /\ pc' = "failed"
            /\ err' = UpsampleError
            /\ UNCHANGED <<outputs, feats>>
    /\ UNCHANGED <<cfg, input, is_mirror_extended, feat_h, feat_w, extracted, flowvars,
                   loopvars>>

(* upsample, line 367: the stacked outputs are returned *)
Return ==
    /\ pc = "upsample"
    /\ OutIdx = Len(lqs)
    /\ pc' = "returned"
    /\ UNCHANGED <<cfg, input, is_mirror_extended, err, feat_h, feat_w, feats, extracted,
                   flowvars, loopvars, outputs>>

Next ==
    \/ \E low \in BOOLEAN, cuda_available \in BOOLEAN, length \in CacheLengths :
          Construct(low, cuda_available, length)
    \/ \E x \in Sequences_, hh \in Heights, ww \in Widths : Forward(x, hh, ww)
    \/ CheckMirror
    \/ SpatialFeatures
    \/ ComputeFlow
    \/ StartDirection
    \/ PropagateStep
    \/ FinishDirection
    \/ UpsampleStep
    \/ Return

Spec == Init /\ [][Next]_vars

(* ---- properties ---- *)
PropModules == {"backward_1", "forward_1"}

FlowDone ==
    \/ pc \in {"direction", "loop", "upsample", "returned"}
    \/ pc = "failed" /\ err # "AssertionError"

IsMirrorInput(x) ==
    /\ Len(x) % 2 = 0
    /\ \A k \in 1..(Len(x) \div 2) : x[Len(x) \div 2 + k] = x[Len(x) \div 2 + 1 - k]

(* C1: a forward call on t frames that returns gives exactly t output       *)
(* frames, and output frame i is built from input frame i: its skip frame,  *)
(* its spatial feature and the feature each direction produced for frame i. *)
C1_OutputPerFrame ==
    pc = "returned" =>
        /\ Len(outputs) = Len(lqs)
        /\ \A k \in 1..Len(outputs) :
              /\ outputs[k].lq = k - 1
              /\ outputs[k].spatial.frames = <<k - 1>>
              /\ Len(outputs[k].hr) = 2
              /\ \A j \in 1..Len(outputs[k].hr) : outputs[k].hr[j].frames = <<k - 1>>

C1_Witness ==
    /\ pc = "returned"
    /\ Len(outputs) = 3
    /\ outputs[3].hr[1].frames = <<2>>

C3_SizeAssertion ==
    /\ (calls > 0 /\ (ds_h < 64 \/ ds_w < 64)) =>
          /\ pc \in {"check", "spatial", "flow", "failed"}
          /\ pc = "failed" => err = "AssertionError"
          /\ outputs = << >>
    /\ (pc = "failed" /\ err = "AssertionError") => (ds_h < 64 \/ ds_w < 64)

C3_Witness ==
    /\ pc = "failed"
    /\ err = "AssertionError"
    /\ ds_h = 64
    /\ ds_w = 63

(* C4: on an input of even length whose second half is the reversal of the  *)
(* first, mirror detection sets is_mirror_extended, and compute_flow takes  *)
(* the forward flow as the time-reversed backward flow with one estimator   *)
(* call.                                                                    *)
C4_MirrorReuse ==
    (calls > 0 /\ pc \notin {"idle", "check"} /\ IsMirrorInput(lqs)) =>
        /\ is_mirror_extended
        /\ FlowDone => /\ flows_forward = Reverse(flows_backward)
                       /\ spynet_calls = 1

C4_Witness ==
    /\ pc = "returned"
    /\ calls = 1
    /\ lqs = <<0, 1, 1, 0>>
    /\ is_mirror_extended
    /\ spynet_calls = 1

(* C5: when forward returns, the list of each direction is empty; each got  *)
(* one element per frame, reconstruction removed one per frame, and no pop  *)
(* ever hit an empty list.                                                  *)
C5_Drained ==
    /\ pc = "returned" =>
          \A m \in PropModules :
              /\ feats.lists[m] = << >>
              /\ Cardinality({k \in 1..Len(trace) : trace[k].module = m}) = Len(lqs)
    /\ pc = "upsample" =>
          \A m \in PropModules : Len(feats.lists[m]) = Len(lqs) - Len(outputs)
    /\ pc = "failed" => err # "IndexError"

C5_Witness ==
    /\ pc = "returned"
    /\ Len(lqs) = 3
    /\ Len(trace) = 6
    /\ feats.lists["backward_1"] = << >>
    /\ feats.lists["forward_1"] = << >>

(* C6: a call on the same input as the call before it on the same instance  *)
(* ends the same way, with the same mirror flag and memory policy, the same *)
(* flows, the same propagation steps and the same output.                   *)
C6_Idempotent ==
    (pc \in {"returned", "failed"} /\ prev.valid) => Summary = prev

C6_Witness ==
    /\ pc = "returned"
    /\ prev.valid
    /\ prev.pc = "returned"
    /\ Len(lqs) = 4
    /\ Len(prev.outputs) = 4

(* C7: whatever the memory policy, the spatial feature list has one entry   *)
(* per frame, entry i is the feature of frame i alone, each frame's feature *)
(* is computed once, and propagation does not fail on the features' shape.  *)
C7_PolicyIndependent ==
    extracted # << >> =>
        /\ Len(Spatial) = Len(lqs)
        /\ \A k \in 1..Len(Spatial) : Spatial[k].frames = <<k - 1>>
        /\ \A k \in 1..Len(extracted) : extracted[k] = 1
        /\ err # "ShapeError"

(* C8: alignment is invoked at step i exactly when i >= 1 and alignment is  *)
(* enabled; at step 0 the zero map enters fusion; without a backend at      *)
(* construction one warning was issued and every step passes the propagated *)
(* state to fusion unmodified.                                              *)
C8_AlignmentGuard ==
    /\ phase = "ready" => (warnings = 1 <=> ~cuda)
    /\ \A k \in 1..Len(trace) :
          /\ trace[k].aligned <=> (trace[k].i >= 1 /\ is_with_alignment)
          /\ trace[k].i = 0 => trace[k].fusion_prop = Zero
          /\ trace[k].aligned => trace[k].fusion_prop.kind = "aligned"
          /\ ~cuda => /\ ~trace[k].aligned
                      /\ trace[k].fusion_prop = trace[k].prop_in

C8_Witness ==
    /\ Len(trace) >= 3
    /\ ~trace[1].aligned
    /\ trace[2].aligned
    /\ trace[3].aligned

(* C9: with alignment enabled, at step 1 the second-order feature, flow and *)
(* condition are zero; at step i >= 2 the second-order feature is what this *)
(* direction appended at step i-2 of this call, and the first-order state   *)
(* is what it appended at step i-1.                                         *)
C9_SecondOrder ==
    \A k \in 1..Len(trace) :
        trace[k].aligned =>
            /\ trace[k].i = 1 =>
                  /\ trace[k].feat_n2 = Zero
                  /\ trace[k].flow_n2 = << >>
                  /\ trace[k].cond_n2 = << >>
            /\ trace[k].i >= 2 =>
                  /\ trace[k].feat_n2.call = calls
                  /\ trace[k].cond_n2 = <<trace[k].feat_n2>>
                  /\ \E j \in 1..(k - 1) :
                        /\ trace[j].module = trace[k].module
                        /\ trace[j].i = trace[k].i - 2
                        /\ trace[j].out = trace[k].feat_n2
            /\ /\ trace[k].prop_in.call = calls
               /\ \E j \in 1..(k - 1) :
                     /\ trace[j].module = trace[k].module
                     /\ trace[j].i = trace[k].i - 1
                     /\ trace[j].out = trace[k].prop_in

C9_Witness ==
    /\ calls = 2
    /\ Len(trace) = 8
    /\ trace[8].module = "forward_1"
    /\ trace[8].i = 3
    /\ trace[8].feat_n2 = Tensor("prop", 2, "forward_1", 1, <<1>>)

(* C10: every element read from a direction's list was produced by that    *)
(* direction for the frame being processed: backward_1 reads no other       *)
(* direction, forward_1 starts after backward_1 is complete and reversed    *)
(* and reads its feature for the same frame, and reconstruction at frame i  *)
(* pops each direction's feature for frame i.                               *)
C10_SameFrame ==
    /\ \A k \in 1..Len(trace) :
          /\ trace[k].module = "backward_1" => trace[k].last_feat = << >>
          /\ trace[k].module = "forward_1" =>
                /\ Len(trace[k].last_feat) = 1
                /\ trace[k].last_feat[1].module = "backward_1"
                /\ trace[k].last_feat[1].call = calls
                /\ trace[k].last_feat[1].frames = <<trace[k].idx>>
    /\ (pc = "loop" /\ module = "forward_1") =>
          /\ Len(feats.lists["backward_1"]) = Len(lqs)
          /\ \A j \in 1..Len(lqs) : feats.lists["backward_1"][j].frames = <<j - 1>>
    /\ \A k \in 1..Len(outputs) :
          /\ Len(outputs[k].hr) = 2
          /\ outputs[k].hr[1].module = "backward_1"
          /\ outputs[k].hr[2].module = "forward_1"
          /\ \A j \in 1..2 : /\ outputs[k].hr[j].frames = <<k - 1>>
                             /\ outputs[k].hr[j].call = calls

C10_Witness ==
    /\ pc = "upsample"
    /\ Len(lqs) = 3
    /\ Len(outputs) = 1
    /\ outputs[1].hr = <<Tensor("prop", calls, "backward_1", 2, <<0>>),
                         Tensor("prop", calls, "forward_1", 0, <<0>>)>>

C12_FlagFollowsInput ==
    FlowDone =>
        /\ Len(flows_forward) = Len(lqs) - 1
        /\ \A j \in 1..Len(flows_forward) : flows_forward[j] = <<lqs[j + 1], lqs[j]>>

====
